---- MODULE Spec2Model ----
(***************************************************************************)
(* Run-preserving placeholder substitution and removal of the IO maker:    *)
(* generate_io.py (literal replace pass) and app.py (section merge and     *)
(* deletion pass).  A text is a sequence of one-character strings, a       *)
(* paragraph is the sequence of its runs' texts, a document is the         *)
(* sequence of the paragraphs the tree walk visits.  Run indexes are       *)
(* 0-based as in the source; TLA+ sequences are 1-based, so run i of the   *)
(* source is element i + 1 of the sequence.                                *)
(***************************************************************************)
EXTENDS Integers, Sequences, FiniteSets, TLC

VARIABLES
    pc,        \* position of the program: which operation has completed
    doc,       \* the document: doc[p][r] is the text field of run r of paragraph p
    doc0,      \* the document as loaded, before any pass
    assigned,  \* assigned[p]: 0-based indexes of the runs of p whose text was assigned
    exc,       \* "none", or the exception the last operation raised
    arg,       \* the input of the operation (map, suffix list, spans or offset)
    ret,       \* the value the last operation returned
    session    \* the form: show_c2, show_c3 and the uploaded briefs

vars == <<pc, doc, doc0, assigned, exc, arg, ret, session>>

(***************************************************************************)
(* Bounds of the model.                                                    *)
(***************************************************************************)
MaxRuns == 3      \* runs per paragraph
MaxRunLen == 3    \* characters per run in the offset-mapper inputs

(***************************************************************************)
(* Python built-ins the code uses.                                         *)
(***************************************************************************)
Min(S) == CHOOSE x \in S : \A y \in S : x <= y
Max(S) == CHOOSE x \in S : \A y \in S : y <= x

\* s[:k] for k >= 0: slicing clamps k to len(s)
Take(s, k) == SubSeq(s, 1, IF k < Len(s) THEN k ELSE Len(s))

\* s[k:] for k >= 0
Drop(s, k) == SubSeq(s, (IF k < Len(s) THEN k ELSE Len(s)) + 1, Len(s))

\* "".join(texts)
RECURSIVE Join(_)
Join(texts) == IF texts = <<>> THEN <<>> ELSE Head(texts) \o Join(Tail(texts))

\* text[p : p + len(w)] == w, the test str.find and the regex literals make
OccursAt(text, w, p) ==
    /\ p >= 0
    /\ p + Len(w) <= Len(text)
    /\ \A i \in 1..Len(w) : text[p + i] = w[i]

\* text.find(ph, start): least index >= start where ph occurs, else -1
Find(text, ph, start) ==
    LET hits == {p \in start..Len(text) : OccursAt(text, ph, p)}
    IN  IF hits = {} THEN -1 ELSE Min(hits)

(***************************************************************************)
(* Run-offset mapper.                                                      *)
(***************************************************************************)
\* cum[i] = total length of runs 0..i-1 (generate_io.py 143-145, app.py 101-103)
RECURSIVE SumLen(_, _)
SumLen(texts, i) == IF i = 0 THEN 0 ELSE SumLen(texts, i - 1) + Len(texts[i])

cum(texts) == [i \in 0..Len(texts) |-> SumLen(texts, i)]

Located(i, o) == [exc |-> "none", run |-> i, off |-> o]
Raised(e) == [exc |-> e, run |-> -1, off |-> -1]

\* a locate whose fallback answers the start of the first run
locate_fallback_first(texts, pos) ==
    LET c == cum(texts)
        hits == {i \in 0..(Len(texts) - 1) : c[i] <= pos /\ pos <= c[i + 1]}
    IN  IF hits # {} THEN Located(Min(hits), pos - c[Min(hits)])
        ELSE IF Len(texts) = 0 THEN Raised("IndexError")
        ELSE Located(0, 0)

\* a locate that scans the runs from the last to the first
locate_latest(texts, pos) ==
    LET c == cum(texts)
        hits == {i \in 0..(Len(texts) - 1) : c[i] <= pos /\ pos <= c[i + 1]}
    IN  IF hits # {} THEN Located(Max(hits), pos - c[Max(hits)])
        ELSE IF Len(texts) = 0 THEN Raised("IndexError")
        ELSE Located(Len(texts) - 1, Len(texts[Len(texts)]))

\* a locate that answers the offset in the paragraph, not in the run
locate_absolute(texts, pos) ==
    LET c == cum(texts)
        hits == {i \in 0..(Len(texts) - 1) : c[i] <= pos /\ pos <= c[i + 1]}
    IN  IF hits # {} THEN Located(Min(hits), pos)
        ELSE IF Len(texts) = 0 THEN Raised("IndexError")
        ELSE Located(Len(texts) - 1, Len(texts[Len(texts)]))

\* locate of _apply_spans_to_paragraph_preserve_runs: the first run i, in
\* order, with cum[i] <= pos <= cum[i+1]; after the loop the fallback
\* (len(texts) - 1, len(texts[-1])), where texts[-1] raises on an empty list
locate(texts, pos) ==
    LET c == cum(texts)
        hits == {i \in 0..(Len(texts) - 1) : c[i] <= pos /\ pos <= c[i + 1]}
    IN  IF hits # {} THEN Located(Min(hits), pos - c[Min(hits)])
        ELSE IF Len(texts) = 0 THEN Raised("IndexError")
        ELSE Located(Len(texts) - 1, Len(texts[Len(texts)]))

\* locate of _clean_paragraph: the same loop and fallback, defined again
clean_locate(texts, pos) ==
    LET c == cum(texts)
        hits == {i \in 0..(Len(texts) - 1) : c[i] <= pos /\ pos <= c[i + 1]}
    IN  IF hits # {} THEN Located(Min(hits), pos - c[Min(hits)])
        ELSE IF Len(texts) = 0 THEN Raised("IndexError")
        ELSE Located(Len(texts) - 1, Len(texts[Len(texts)]))

(***************************************************************************)
(* Span locator, literal mode.                                             *)
(***************************************************************************)
Span(s, e, r) == [start |-> s, end |-> e, repl |-> r]

\* list.sort(key=start, reverse=True) and sorted(..., reverse=True): stable,
\* spans with equal start keep their order
InsertDesc(sorted, s) ==
    LET k == Cardinality({i \in 1..Len(sorted) : sorted[i].start >= s.start})
    IN  SubSeq(sorted, 1, k) \o <<s>> \o SubSeq(sorted, k + 1, Len(sorted))

RECURSIVE SortByStartDesc(_)
SortByStartDesc(spans) ==
    IF spans = <<>> THEN <<>>
    ELSE InsertDesc(SortByStartDesc(SubSeq(spans, 1, Len(spans) - 1)), spans[Len(spans)])

\* the while loop of one key: find, append, continue after the match
RECURSIVE FindLoop(_, _, _, _)
FindLoop(text, ph, val, start) ==
    LET idx == Find(text, ph, start)
    IN  IF idx = -1 THEN <<>>
        ELSE <<Span(idx, idx + Len(ph), val)>> \o FindLoop(text, ph, val, idx + Len(ph))

\* the for loop over replacements.items(), in the order of insertion;
\* an empty key is skipped
RECURSIVE KeyLoop(_, _)
KeyLoop(text, replacements) ==
    IF replacements = <<>> THEN <<>>
    ELSE LET it == Head(replacements)
         IN  (IF it.ph = <<>> THEN <<>> ELSE FindLoop(text, it.ph, it.val, 0))
             \o KeyLoop(text, Tail(replacements))

\* the span locator without its final sort
_collect_token_spans_unsorted(text, replacements) == KeyLoop(text, replacements)

\* the span locator with its final sort ascending (reverse=True left out)
_collect_token_spans_ascending(text, replacements) ==
    LET d == SortByStartDesc(KeyLoop(text, replacements))
    IN  [i \in 1..Len(d) |-> d[Len(d) + 1 - i]]

_collect_token_spans(text, replacements) ==
    SortByStartDesc(KeyLoop(text, replacements))

(***************************************************************************)
(* Span applier.  A paragraph under edit is [exc, runs, assigned].         *)
(***************************************************************************)
Para(e, r, a) == [exc |-> e, runs |-> r, assigned |-> a]

\* runs[j].text = "" for j in range(si + 1, ei)
ClearMiddle(runs, si, ei) ==
    [j \in 1..Len(runs) |-> IF si + 1 <= j - 1 /\ j - 1 < ei THEN <<>> ELSE runs[j]]

\* one iteration of "for start, end, repl in spans" of the applier; texts
\* are the ORIGINAL run texts, st.runs the current ones
ApplySpan(st, texts, span) ==
    LET s == locate(texts, span.start)
        e == locate(texts, span.end)
    IN  IF st.exc # "none" THEN st
        ELSE IF s.exc # "none" THEN Para(s.exc, st.runs, st.assigned)
        ELSE IF e.exc # "none" THEN Para(e.exc, st.runs, st.assigned)
        ELSE IF s.run = e.run
        THEN Para("none",
                  [st.runs EXCEPT ![s.run + 1] =
                       Take(@, s.off) \o span.repl \o Drop(@, e.off)],
                  st.assigned \cup {s.run})
        ELSE LET r1 == [st.runs EXCEPT ![e.run + 1] = Drop(@, e.off)]
                 r2 == ClearMiddle(r1, s.run, e.run)
                 r3 == [r2 EXCEPT ![s.run + 1] = Take(@, s.off) \o span.repl]
             IN  Para("none", r3,
                      st.assigned \cup {s.run, e.run}
                                  \cup {j \in 0..(Len(texts) - 1) : s.run < j /\ j < e.run})

RECURSIVE ApplyLoop(_, _, _)
ApplyLoop(st, texts, spans) ==
    IF spans = <<>> THEN st
    ELSE ApplyLoop(ApplySpan(st, texts, Head(spans)), texts, Tail(spans))

\* runs: the run texts of the paragraph
_apply_spans_to_paragraph_preserve_runs(runs, spans) ==
    IF spans = <<>> THEN Para("none", runs, {})
    ELSE ApplyLoop(Para("none", runs, {}), runs, spans)

replace_in_paragraph_preserve(runs, replacements) ==
    IF runs = <<>> THEN Para("none", runs, {})
    ELSE IF Join(runs) = <<>> THEN Para("none", runs, {})
    ELSE _apply_spans_to_paragraph_preserve_runs(
             runs, _collect_token_spans(Join(runs), replacements))

\* the tree walk: every paragraph of the body, the tables and the
\* headers and footers, each on its own
replace_everywhere(d, replacements) ==
    [p \in 1..Len(d) |-> replace_in_paragraph_preserve(d[p], replacements)]

(***************************************************************************)
(* Span locator, pattern mode: the regular expression                      *)
(*     \{\{[^{}]+(?:s1|s2|...)\}\}                                         *)
(* that _remove_placeholders_with_suffixes compiles from its suffixes.     *)
(***************************************************************************)
LB == "{"
RB == "}"
Suf2 == <<"_", "2">>   \* the suffix of section 2
Suf3 == <<"_", "3">>   \* the suffix of section 3

\* how many characters [^{}]+ can take from index q on
NameRun(text, q) ==
    Max({k \in 0..(Len(text) - q) : \A i \in 1..k : text[q + i] \notin {LB, RB}})

\* the suffixes, in the order of the alternation, that match at q followed by }}
SuffixHits(text, suffixes, q) ==
    {i \in 1..Len(suffixes) : OccursAt(text, suffixes[i] \o <<RB, RB>>, q)}

\* a match that lets the name before the suffix be empty: [^{}]* for [^{}]+
MatchAtStar(text, suffixes, p) ==
    LET q == p + 2
        ks == {k \in 0..NameRun(text, q) : SuffixHits(text, suffixes, q + k) # {}}
    IN  IF ~OccursAt(text, <<LB, LB>>, p) \/ ks = {} THEN -1
        ELSE q + Max(ks) + Len(suffixes[Min(SuffixHits(text, suffixes, q + Max(ks)))]) + 2

\* pattern.match at p: the end of the match, or -1.  [^{}]+ is greedy and
\* backtracks: the longest name first, and for it the first alternative
MatchAt(text, suffixes, p) ==
    LET q == p + 2
        ks == {k \in 1..NameRun(text, q) : SuffixHits(text, suffixes, q + k) # {}}
    IN  IF ~OccursAt(text, <<LB, LB>>, p) \/ ks = {} THEN -1
        ELSE q + Max(ks) + Len(suffixes[Min(SuffixHits(text, suffixes, q + Max(ks)))]) + 2

\* pattern.finditer(full): leftmost match, then on from its end
RECURSIVE finditer(_, _, _)
finditer(text, suffixes, pos) ==
    LET starts == {p \in pos..Len(text) : MatchAt(text, suffixes, p) # -1}
    IN  IF starts = {} THEN <<>>
        ELSE <<[start |-> Min(starts), end |-> MatchAt(text, suffixes, Min(starts))]>>
             \o finditer(text, suffixes, MatchAt(text, suffixes, Min(starts)))

(***************************************************************************)
(* Deletion pass.                                                          *)
(***************************************************************************)
\* one iteration of "for start, end in sorted(spans, ...)" of _clean_paragraph
CleanSpan(st, texts, span) ==
    LET s == clean_locate(texts, span.start)
        e == clean_locate(texts, span.end)
    IN  IF st.exc # "none" THEN st
        ELSE IF s.exc # "none" THEN Para(s.exc, st.runs, st.assigned)
        ELSE IF e.exc # "none" THEN Para(e.exc, st.runs, st.assigned)
        ELSE IF s.run = e.run
        THEN Para("none",
                  [st.runs EXCEPT ![s.run + 1] = Take(@, s.off) \o Drop(@, e.off)],
                  st.assigned \cup {s.run})
        ELSE LET r1 == [st.runs EXCEPT ![e.run + 1] = Drop(@, e.off)]
                 r2 == ClearMiddle(r1, s.run, e.run)
                 r3 == [r2 EXCEPT ![s.run + 1] = Take(@, s.off)]
             IN  Para("none", r3,
                      st.assigned \cup {s.run, e.run}
                                  \cup {j \in 0..(Len(texts) - 1) : s.run < j /\ j < e.run})

RECURSIVE CleanLoop(_, _, _)
CleanLoop(st, texts, spans) ==
    IF spans = <<>> THEN st
    ELSE CleanLoop(CleanSpan(st, texts, Head(spans)), texts, Tail(spans))

_clean_paragraph(runs, suffixes) ==
    IF runs = <<>> THEN Para("none", runs, {})
    ELSE IF Join(runs) = <<>> THEN Para("none", runs, {})
    ELSE IF finditer(Join(runs), suffixes, 0) = <<>> THEN Para("none", runs, {})
    ELSE CleanLoop(Para("none", runs, {}), runs,
                   SortByStartDesc(finditer(Join(runs), suffixes, 0)))

\* the same walk as replace_everywhere; an empty suffix list returns at once
_remove_placeholders_with_suffixes(d, suffixes) ==
    IF suffixes = <<>> THEN [p \in 1..Len(d) |-> Para("none", d[p], {})]
    ELSE [p \in 1..Len(d) |-> _clean_paragraph(d[p], suffixes)]

(***************************************************************************)
(* Formatters and the replacement map of one brief (generate_io.py), and   *)
(* the section merge of app.py.  A dict is the sequence of its entries in  *)
(* the order of insertion.  The placeholder names are abbreviated:         *)
(*   n campaign_name, b campaign_budget, t total_budget,                   *)
(*   s service_description, u billing_unit, r rate;                        *)
(* the other fields of the field maps are read and formatted as n is.      *)
(***************************************************************************)
None == <<"None">>     \* Python's None in a cell: the cell is empty

\* file_N is None: nothing uploaded
NoFile == [uploaded |-> FALSE, D13 |-> None, D19 |-> None, D20 |-> None]

\* the cells of an uploaded brief that the field maps read
Workbook(d13, d19, d20) == [uploaded |-> TRUE, D13 |-> d13, D19 |-> d19, D20 |-> d20]

Placeholder(name) == <<LB, LB>> \o name \o <<RB, RB>>

DictHas(m, k) == \E i \in 1..Len(m) : m[i].ph = k

\* m.get(k, "")
DictGet(m, k) ==
    IF DictHas(m, k) THEN m[CHOOSE i \in 1..Len(m) : m[i].ph = k].val ELSE <<>>

\* m[k] = v
DictSet(m, k, v) ==
    IF DictHas(m, k)
    THEN [i \in 1..Len(m) |-> IF m[i].ph = k THEN [ph |-> k, val |-> v] ELSE m[i]]
    ELSE Append(m, [ph |-> k, val |-> v])

\* m.update(other)
RECURSIVE DictUpdate(_, _)
DictUpdate(m, other) ==
    IF other = <<>> THEN m
    ELSE DictUpdate(DictSet(m, Head(other).ph, Head(other).val), Tail(other))

\* s.strip()
RECURSIVE StripText(_)
StripText(t) ==
    IF t = <<>> THEN t
    ELSE IF Head(t) = " " THEN StripText(Tail(t))
    ELSE IF t[Len(t)] = " " THEN StripText(SubSeq(t, 1, Len(t) - 1))
    ELSE t

\* s.replace(c, "")
RECURSIVE Without(_, _)
Without(t, c) ==
    IF t = <<>> THEN <<>>
    ELSE (IF Head(t) = c THEN <<>> ELSE <<Head(t)>>) \o Without(Tail(t), c)

Digits == <<"0", "1", "2", "3", "4", "5", "6", "7", "8", "9">>
DigitValue(c) == (CHOOSE i \in 1..Len(Digits) : Digits[i] = c) - 1

\* float(s) for the numerals of the model, whole numbers written with or
\* without a trailing ".0"; -1 stands for ValueError
RECURSIVE DigitsValue(_)
DigitsValue(t) ==
    IF t = <<>> THEN 0
    ELSE DigitsValue(SubSeq(t, 1, Len(t) - 1)) * 10 + DigitValue(t[Len(t)])

ParseFloat(t) ==
    LET core == IF Len(t) >= 2 /\ SubSeq(t, Len(t) - 1, Len(t)) = <<".", "0">>
                THEN SubSeq(t, 1, Len(t) - 2) ELSE t
    IN  IF core # <<>> /\ \A i \in 1..Len(core) : \E j \in 1..Len(Digits) : core[i] = Digits[j]
        THEN DigitsValue(core) ELSE -1

\* f"{num:,.0f}" for a whole number below 1000 (no thousands separator)
RECURSIVE NatText(_)
NatText(n) ==
    IF n < 10 THEN <<Digits[n + 1]>> ELSE NatText(n \div 10) \o <<Digits[(n % 10) + 1]>>

\* str(v) of a float holding a whole number
FloatStr(n) == NatText(n) \o <<".", "0">>

fmt_strip(v) == IF v = None THEN <<>> ELSE StripText(v)

fmt_currency(v) ==
    LET str == fmt_strip(v)
        num == ParseFloat(Without(Without(str, ","), "$"))
    IN  IF str = <<>> THEN str
        ELSE IF num = -1 THEN str
        ELSE <<"$">> \o NatText(num)

FORMATTERS(fmt_key, raw) ==
    IF fmt_key = "currency" THEN fmt_currency(raw) ELSE fmt_strip(raw)

Field(c, ph, f) == [cell |-> c, placeholder |-> ph, fmt |-> f]

FIELD_MAP_PLA ==
    << Field("D13", Placeholder(<<"n">>), "strip"),
       Field("D20", Placeholder(<<"b">>), "currency"),
       Field("D20", Placeholder(<<"t">>), "currency") >>

FIELD_MAP_DISPLAY ==
    << Field("D13", Placeholder(<<"n">>), "strip"),
       Field("D19", Placeholder(<<"b">>), "currency"),
       Field("D19", Placeholder(<<"t">>), "currency") >>

FIELD_MAPS(campaign_key) ==
    IF campaign_key = "pla" THEN FIELD_MAP_PLA ELSE FIELD_MAP_DISPLAY

\* ws: the cells of the active sheet
RECURSIVE read_brief_values(_, _)
read_brief_values(ws, field_map) ==
    IF field_map = <<>> THEN <<>>
    ELSE LET f == field_map[Len(field_map)]
         IN  DictSet(read_brief_values(ws, SubSeq(field_map, 1, Len(field_map) - 1)),
                     f.placeholder, FORMATTERS(f.fmt, ws[f.cell]))

_normalize_service(sv) == IF sv = "Managed Service" THEN "managed" ELSE "self"

compute_service_description(campaign_key, service_choice) ==
    LET sk == _normalize_service(service_choice)
    IN  IF campaign_key = "pla"
        THEN (IF sk = "managed" THEN <<"P", "L", "A", " ", "M", "S">>
                                ELSE <<"P", "L", "A", " ", "S", "S">>)
        ELSE (IF sk = "managed" THEN <<"D", "i", "s", "p", "l", "a", "y", " ", "M", "S">>
                                ELSE <<"D", "i", "s", "p", "l", "a", "y", " ", "S", "S">>)

\* <<billing_unit, rate>>
compute_billing_unit_and_rate(campaign_key) ==
    IF campaign_key = "pla" THEN <<<<"C", "P", "C">>, <<"$", "0", ".", "8", "0">>>>
    ELSE <<<<"C", "P", "M">>, <<"$", "2", "0">>>>

\* a suffix_placeholders that copies the map whatever the suffix
suffix_placeholders_copy(repl, suffix) == repl

suffix_placeholders(repl, suffix) ==
    LET one(k) == IF /\ Len(k) >= 2
                     /\ SubSeq(k, 1, 2) = <<LB, LB>>
                     /\ SubSeq(k, Len(k) - 1, Len(k)) = <<RB, RB>>
                  THEN <<LB, LB>> \o SubSeq(k, 3, Len(k) - 2) \o suffix \o <<RB, RB>>
                  ELSE k \o suffix
        RECURSIVE out(_)
        out(i) == IF i = 0 THEN <<>> ELSE DictSet(out(i - 1), one(repl[i].ph), repl[i].val)
    IN  IF suffix = <<>> THEN repl ELSE out(Len(repl))

_currency_to_float(x) ==
    LET str == Without(Without(StripText(x), "$"), ",")
    IN  IF str = <<>> THEN 0
        ELSE IF ParseFloat(str) = -1 THEN 0
        ELSE ParseFloat(str)

\* the replacement map process builds from one section before it suffixes it
section_repl(sec) ==
    LET campaign_key == IF sec.brief_type = "Sponsored Search (PLA)" THEN "pla" ELSE "display"
        repl == read_brief_values(sec.file, FIELD_MAPS(campaign_key))
        r1 == DictSet(repl, Placeholder(<<"s">>),
                      compute_service_description(campaign_key, sec.service))
        r2 == DictSet(r1, Placeholder(<<"u">>), compute_billing_unit_and_rate(campaign_key)[1])
    IN  DictSet(r2, Placeholder(<<"r">>), compute_billing_unit_and_rate(campaign_key)[2])

\* process(uploaded_file, brief_type, service_choice, suffix): the new
\* master_repl; the map is left alone when no file was uploaded
process(master_repl, sec, suffix) ==
    IF ~sec.file.uploaded THEN master_repl
    ELSE DictUpdate(master_repl, suffix_placeholders(section_repl(sec), suffix))

\* what process returns
Used(sec) == sec.file.uploaded

Suffix(i) == IF i = 1 THEN <<>> ELSE IF i = 2 THEN Suf2 ELSE Suf3

\* whether section i is drawn on the form
Shown(ss, i) == i = 1 \/ (i = 2 /\ ss.show_c2) \/ (i = 3 /\ ss.show_c3)

\* the three calls of process, sections 2 and 3 only when they are shown
MergedSections(ss) ==
    LET m1 == process(<<>>, ss.sections[1], Suffix(1))
        m2 == IF ss.show_c2 THEN process(m1, ss.sections[2], Suffix(2)) ELSE m1
    IN  IF ss.show_c3 THEN process(m2, ss.sections[3], Suffix(3)) ELSE m2

\* the grand total over the three campaign budgets
grand_total(master_repl) ==
    _currency_to_float(DictGet(master_repl, Placeholder(<<"b">>)))
    + _currency_to_float(DictGet(master_repl, Placeholder(<<"b">> \o Suf2)))
    + _currency_to_float(DictGet(master_repl, Placeholder(<<"b">> \o Suf3)))

\* master_repl as handed to replace_everywhere
MasterRepl(ss) ==
    DictSet(MergedSections(ss), Placeholder(<<"t">>),
            fmt_currency(FloatStr(grand_total(MergedSections(ss)))))

\* the list "unused" handed to the deletion pass
Unused(ss) ==
    (IF ~(ss.show_c2 /\ Used(ss.sections[2])) THEN <<Suf2>> ELSE <<>>)
    \o (IF ~(ss.show_c3 /\ Used(ss.sections[3])) THEN <<Suf3>> ELSE <<>>)

(***************************************************************************)
(* Inputs of the paragraph-level specifications.                           *)
(***************************************************************************)
X == <<"x">>
TokA == <<LB, LB, "a", RB, RB>>            \* {{a}}
TokB == <<LB, LB, "b", RB, RB>>            \* {{b}}
TokA2 == <<LB, LB, "a", "_", "2", RB, RB>> \* {{a_2}}
TokA3 == <<LB, LB, "a", "_", "3", RB, RB>> \* {{a_3}}
Tok2 == <<LB, LB, "_", "2", RB, RB>>       \* {{_2}}

Entry(k, v) == [ph |-> k, val |-> v]

\* a session before any section is added or uploaded
NoSession == [show_c2 |-> FALSE, show_c3 |-> FALSE, sections |-> <<>>]

ParagraphsOf(RunTexts) == UNION {[1..k -> RunTexts] : k \in 0..MaxRuns}

-----------------------------------------------------------------------------
(***************************************************************************)
(* SpecLocate: the run-offset mapper on every list of run lengths up to    *)
(* MaxRuns x MaxRunLen and every offset from one below to one above the    *)
(* text.                                                                   *)
(***************************************************************************)
RunOfLen(n) == [i \in 1..n |-> "x"]

LocateParagraphs == ParagraphsOf({RunOfLen(n) : n \in 0..MaxRunLen})

InitLocate ==
    /\ pc = "call"
    /\ doc \in {<<para>> : para \in LocateParagraphs}
    /\ doc0 = doc
    /\ assigned = <<{}>>
    /\ exc = "none"
    /\ arg \in (0 - 1)..(Len(Join(doc[1])) + 1)
    /\ ret = <<>>
    /\ session = NoSession

\* locate(pos) inside _apply_spans_to_paragraph_preserve_runs
Locate ==
    /\ pc = "call"
    /\ pc' = "located"
    /\ ret' = locate(doc[1], arg)
    /\ exc' = ret'.exc
    /\ UNCHANGED <<doc, doc0, assigned, arg, session>>

\* locate(pos) inside _clean_paragraph
CleanLocate ==
    /\ pc = "call"
    /\ pc' = "clean_located"
    /\ ret' = clean_locate(doc[1], arg)
    /\ exc' = ret'.exc
    /\ UNCHANGED <<doc, doc0, assigned, arg, session>>

NextLocate == Locate \/ CleanLocate

SpecLocate == InitLocate /\ [][NextLocate]_vars

-----------------------------------------------------------------------------
(***************************************************************************)
(* SpecReplace: one paragraph, any sequence of up to MaxRuns runs drawn    *)
(* from ReplaceRunTexts (tokens whole, with text around them, two in one   *)
(* run, cut across runs, and empty runs), under the replace pass with one  *)
(* of ReplaceMaps (no key, one key, an empty and a long value, an empty    *)
(* key, a value that reads as another key, two keys that overlap), or      *)
(* handed to the applier directly with a span list.                        *)
(***************************************************************************)
ReplaceRunTexts ==
    { <<>>, X, TokA, X \o TokA \o X, TokA \o TokB,
      <<LB, LB>>, <<"a", RB, RB>>, <<"a">>, <<RB, RB>> }

ReplaceMaps ==
    { <<>>,
      <<Entry(TokA, <<"Z">>)>>,
      <<Entry(TokA, <<>>), Entry(TokB, <<"Y", "Y", "Y", "Y", "Y", "Y">>)>>,
      <<Entry(<<>>, <<"Z">>), Entry(TokB, <<"Y">>)>>,
      <<Entry(TokA, TokB), Entry(TokB, <<"Y">>)>>,
      <<Entry(TokA, <<"Z">>), Entry(<<"a", RB, RB>>, <<"Y">>)>> }

DirectSpans ==
    { <<Span(0, 1, <<"Z">>)>>,
      <<Span(1, 2, <<"Y">>), Span(0, 1, <<"Z">>)>> }

InitReplace ==
    /\ pc = "loaded"
    /\ doc \in {<<para>> : para \in ParagraphsOf(ReplaceRunTexts)}
    /\ doc0 = doc
    /\ assigned = <<{}>>
    /\ exc = "none"
    /\ arg = <<>>
    /\ ret = <<>>
    /\ session = NoSession

\* replace_in_paragraph_preserve(paragraph, replacements)
ReplaceInParagraph ==
    /\ pc = "loaded"
    /\ \E m \in ReplaceMaps :
        LET r == replace_in_paragraph_preserve(doc[1], m)
        IN  /\ arg' = m
            /\ doc' = <<r.runs>>
            /\ assigned' = <<r.assigned>>
            /\ exc' = r.exc
    /\ pc' = "replaced"
    /\ UNCHANGED <<doc0, ret, session>>

\* _apply_spans_to_paragraph_preserve_runs(paragraph, spans) called with
\* spans the caller supplies
ApplySpans ==
    /\ pc = "loaded"
    /\ \E sp \in DirectSpans :
        LET r == _apply_spans_to_paragraph_preserve_runs(doc[1], sp)
        IN  /\ arg' = sp
            /\ doc' = <<r.runs>>
            /\ assigned' = <<r.assigned>>
            /\ exc' = r.exc
    /\ pc' = "applied"
    /\ UNCHANGED <<doc0, ret, session>>

NextReplace == ReplaceInParagraph \/ ApplySpans

SpecReplace == InitReplace /\ [][NextReplace]_vars

-----------------------------------------------------------------------------
(***************************************************************************)
(* SpecDelete: one paragraph of up to MaxRuns runs drawn from              *)
(* DeleteRunTexts under the deletion pass, run once and then once more     *)
(* with the same suffix list.                                              *)
(***************************************************************************)
DeleteRunTexts ==
    { <<>>, X, TokA, TokA2, TokA3, Tok2, <<LB, LB, "a">>, <<"_", "2", RB, RB>> }

SuffixLists == { <<>>, <<Suf2>>, <<Suf3>>, <<Suf2, Suf3>> }

InitDelete ==
    /\ pc = "loaded"
    /\ doc \in {<<para>> : para \in ParagraphsOf(DeleteRunTexts)}
    /\ doc0 = doc
    /\ assigned = <<{}>>
    /\ exc = "none"
    /\ arg = <<>>
    /\ ret = <<>>
    /\ session = NoSession

\* _remove_placeholders_with_suffixes(doc, suffixes), first run
RemovePlaceholders ==
    /\ pc = "loaded"
    /\ \E sl \in SuffixLists :
        LET r == _remove_placeholders_with_suffixes(doc, sl)
        IN  /\ arg' = sl
            /\ doc' = [p \in 1..Len(doc) |-> r[p].runs]
            /\ assigned' = [p \in 1..Len(doc) |-> r[p].assigned]
            /\ exc' = IF \E p \in 1..Len(doc) : r[p].exc # "none"
                      THEN "IndexError" ELSE "none"
    /\ pc' = "cleaned"
    /\ UNCHANGED <<doc0, ret, session>>

\* the same call again on the document the first run left; ret keeps the
\* document as it was between the two runs
RemovePlaceholdersAgain ==
    /\ pc = "cleaned"
    /\ LET r == _remove_placeholders_with_suffixes(doc, arg)
       IN  /\ doc' = [p \in 1..Len(doc) |-> r[p].runs]
           /\ assigned' = [p \in 1..Len(doc) |-> assigned[p] \cup r[p].assigned]
           /\ exc' = IF \E p \in 1..Len(doc) : r[p].exc # "none"
                     THEN "IndexError" ELSE "none"
    /\ ret' = doc
    /\ pc' = "cleaned2"
    /\ UNCHANGED <<doc0, arg, session>>

NextDelete == RemovePlaceholders \/ RemovePlaceholdersAgain

SpecDelete == InitDelete /\ [][NextDelete]_vars

-----------------------------------------------------------------------------
(***************************************************************************)
(* Spec: the form of app.py.  The user adds sections, picks brief and      *)
(* service types, uploads briefs and presses Generate IO; the generation   *)
(* merges the sections' maps, replaces in the template and then removes    *)
(* the placeholders of the unused suffixes.                                *)
(***************************************************************************)
TokN == Placeholder(<<"n">>)
TokT == Placeholder(<<"t">>)
TokS == Placeholder(<<"s">>)
TokBb == Placeholder(<<"b">>)
TokN2 == Placeholder(<<"n">> \o Suf2)
TokB2 == Placeholder(<<"b">> \o Suf2)
TokT2 == Placeholder(<<"t">> \o Suf2)
TokN3 == Placeholder(<<"n">> \o Suf3)
TokS3 == Placeholder(<<"s">> \o Suf3)

\* sample.docx: the paragraphs the walk visits, each with its runs
Templates ==
    { << <<TokN, X, TokT>>,
         <<TokN2 \o X, TokB2>>,
         <<<<LB, LB, "n">>, <<>>, <<"_", "3", RB, RB>>>> >>,
      << <<>>,
         <<TokBb \o TokB2, X, TokT2>>,
         <<TokS, TokS3 \o TokN3>> >> }

\* the briefs a user uploads: a name with blanks around it, a name that
\* reads like a placeholder, an empty name; budgets as numbers, as text
\* and empty
Workbooks ==
    { Workbook(<<" ", "A">>, <<"2">>, <<"1">>),
      Workbook(TokA2, None, <<"$", "2">>),
      Workbook(None, <<"1">>, <<"T", "B", "D">>) }

BriefTypes == {"Sponsored Search (PLA)", "Display"}
ServiceTypes == {"Managed Service", "Self Service"}

\* campaign_section as first drawn: both selectboxes at index 0, no upload
FreshSection ==
    [brief_type |-> "Sponsored Search (PLA)", service |-> "Managed Service", file |-> NoFile]

\* brief_type_N = service_choice_N = file_N = None of a section not drawn
HiddenSection == [brief_type |-> "None", service |-> "None", file |-> NoFile]

NoMaster == [master_repl |-> <<>>, error |-> ""]

Init ==
    /\ pc = "form"
    /\ doc0 \in Templates
    /\ doc = doc0
    /\ assigned = [p \in 1..Len(doc0) |-> {}]
    /\ exc = "none"
    /\ arg = <<>>
    /\ ret = NoMaster
    /\ session = [show_c2 |-> FALSE, show_c3 |-> FALSE,
                  sections |-> <<FreshSection, HiddenSection, HiddenSection>>]

\* "Add another brief": reveals section 2, then section 3; disabled once
\* both are shown
AddClicked ==
    /\ pc = "form"
    /\ ~(session.show_c2 /\ session.show_c3)
    /\ session' =
         IF ~session.show_c2
         THEN [session EXCEPT !.show_c2 = TRUE, !.sections[2] = FreshSection]
         ELSE [session EXCEPT !.show_c3 = TRUE, !.sections[3] = FreshSection]
    /\ ret' = NoMaster
    /\ UNCHANGED <<pc, doc, doc0, assigned, exc, arg>>

\* the Brief Type selectbox of a drawn section
SelectBriefType ==
    /\ pc = "form"
    /\ \E i \in 1..3, bt \in BriefTypes :
        /\ Shown(session, i)
        /\ session' = [session EXCEPT !.sections[i].brief_type = bt]
    /\ ret' = NoMaster
    /\ UNCHANGED <<pc, doc, doc0, assigned, exc, arg>>

\* the Service Type selectbox of a drawn section
SelectService ==
    /\ pc = "form"
    /\ \E i \in 1..3, sv \in ServiceTypes :
        /\ Shown(session, i)
        /\ session' = [session EXCEPT !.sections[i].service = sv]
    /\ ret' = NoMaster
    /\ UNCHANGED <<pc, doc, doc0, assigned, exc, arg>>

\* the file uploader of a drawn section: a brief is uploaded or taken away
Upload ==
    /\ pc = "form"
    /\ \E i \in 1..3, wb \in Workbooks \cup {NoFile} :
        /\ Shown(session, i)
        /\ session' = [session EXCEPT !.sections[i].file = wb]
    /\ ret' = NoMaster
    /\ UNCHANGED <<pc, doc, doc0, assigned, exc, arg>>

\* Generate IO without a brief in section 1: st.error and st.stop; the
\* message stays until the script runs again
GenerateWithoutBrief ==
    /\ pc = "form"
    /\ ~session.sections[1].file.uploaded
    /\ ret' = [ret EXCEPT !.error = "Please upload the brief for Section 1 (Campaign 1)."]
    /\ UNCHANGED <<pc, doc, doc0, assigned, exc, arg, session>>

\* Generate IO, up to the master map: the three calls of process and the
\* grand total written under total_budget
GenerateMerge ==
    /\ pc = "form"
    /\ session.sections[1].file.uploaded
    /\ ret' = [master_repl |-> MasterRepl(session), error |-> ""]
    /\ pc' = "merged"
    /\ UNCHANGED <<doc, doc0, assigned, exc, arg, session>>

\* gio.replace_everywhere(doc, master_repl) on the freshly loaded template
GenerateReplace ==
    /\ pc = "merged"
    /\ LET r == replace_everywhere(doc0, ret.master_repl)
       IN  /\ doc' = [p \in 1..Len(doc0) |-> r[p].runs]
           /\ assigned' = [p \in 1..Len(doc0) |-> r[p].assigned]
           /\ exc' = IF \E p \in 1..Len(doc0) : r[p].exc # "none"
                     THEN "IndexError" ELSE "none"
    /\ arg' = doc'
    /\ pc' = "replaced"
    /\ UNCHANGED <<doc0, ret, session>>

\* _remove_placeholders_with_suffixes(doc, unused); arg keeps the document
\* as the replace pass left it
GenerateRemove ==
    /\ pc = "replaced"
    /\ exc = "none"
    /\ LET r == _remove_placeholders_with_suffixes(doc, Unused(session))
       IN  /\ doc' = [p \in 1..Len(doc) |-> r[p].runs]
           /\ assigned' = [p \in 1..Len(doc) |-> assigned[p] \cup r[p].assigned]
           /\ exc' = IF \E p \in 1..Len(doc) : r[p].exc # "none"
                     THEN "IndexError" ELSE "none"
    /\ pc' = "done"
    /\ UNCHANGED <<doc0, arg, ret, session>>

Next ==
    \/ AddClicked
    \/ SelectBriefType
    \/ SelectService
    \/ Upload
    \/ GenerateWithoutBrief
    \/ GenerateMerge
    \/ GenerateReplace
    \/ GenerateRemove

Spec == Init /\ [][Next]_vars

-----------------------------------------------------------------------------
(***************************************************************************)
(* Claims about the run-offset mapper (SpecLocate).                        *)
(***************************************************************************)
Total == Len(Join(doc[1]))
NRuns == Len(doc[1])
InRange == 0 <= arg /\ arg <= Total
Returned == pc \in {"located", "clean_located"}

Holds(i, pos) == cum(doc[1])[i] <= pos /\ pos <= cum(doc[1])[i + 1]

\* C10, as stated: for pos in [0, cum[n]] locate returns (run, off) with
\* cum[run] <= pos <= cum[run+1] and off = pos - cum[run]; on a run boundary
\* the earlier run is chosen, except at the final boundary pos = cum[n],
\* where the last run of the paragraph is returned.
C10_LastRunAtFinalBoundary ==
    (pc = "located" /\ NRuns >= 1 /\ InRange) =>
        /\ ret.exc = "none"
        /\ Holds(ret.run, arg)
        /\ ret.off = arg - cum(doc[1])[ret.run]
        /\ (arg < Total => \A j \in 0..(ret.run - 1) : ~Holds(j, arg))
        /\ (arg = Total => ret.run = NRuns - 1)

\* C10, amended: for every list of run lengths with at least one run and
\* every pos in [0, cum[n]], locate returns (run, off) with
\* cum[run] <= pos <= cum[run+1] and off = pos - cum[run], and run is the
\* smallest such index: on a run boundary the earlier run is chosen, at the
\* final boundary too, where the last run is returned only if it is not
\* empty or is the only run.  With no runs locate raises IndexError.
C10_EarliestRun ==
    (pc = "located" /\ InRange) =>
        IF NRuns = 0 THEN ret.exc = "IndexError"
        ELSE /\ ret.exc = "none"
             /\ Holds(ret.run, arg)
             /\ ret.off = arg - cum(doc[1])[ret.run]
             /\ \A j \in 0..(ret.run - 1) : ~Holds(j, arg)
             /\ (arg = Total =>
                    (ret.run = NRuns - 1 <=> (NRuns = 1 \/ doc[1][NRuns] # <<>>)))

C10_Witness ==
    /\ pc = "located"
    /\ NRuns = 3
    /\ doc[1][3] = <<>>
    /\ arg = Total
    /\ arg > 0
    /\ ret.run = 0

\* the paragraph of the worked example: three runs of lengths 2, 0 and 3
Runs203 == <<Len(doc[1][1]), Len(doc[1][2]), Len(doc[1][3])>> = <<2, 0, 3>>
Example203 == pc = "located" /\ NRuns = 3 /\ Runs203

\* C11, as stated: for a paragraph whose runs have lengths [2,0,3],
\* locate(0) = (0,0), locate(2) = (0,2) or (2,0), and locate(4) = (2,1).
C11_LocateFourIsTwoOne ==
    Example203 =>
        /\ (arg = 0 => ret = Located(0, 0))
        /\ (arg = 2 => ret \in {Located(0, 2), Located(2, 0)})
        /\ (arg = 4 => ret = Located(2, 1))

\* C11, amended: for a paragraph whose runs have lengths [2,0,3] (so
\* cum = [0,2,2,5]), locate(0) = (0,0), locate(2) = (0,2) or (2,0), and
\* locate(4) = (2,2), the offset in run 2 being 4 - cum[2] = 4 - 2.
C11_LocateFourIsTwoTwo ==
    Example203 =>
        /\ (arg = 0 => ret = Located(0, 0))
        /\ (arg = 2 => ret \in {Located(0, 2), Located(2, 0)})
        /\ (arg = 4 => ret = Located(2, 2))

C11_Witness ==
    /\ Example203
    /\ cum(doc[1]) = [i \in 0..3 |-> <<0, 2, 2, 5>>[i + 1]]
    /\ arg = 4
    /\ ret = Located(2, 2)

-----------------------------------------------------------------------------
(***************************************************************************)
(* Claims about the replace pass and the applier (SpecReplace).            *)
(***************************************************************************)
\* the occurrences of the keys in a text: <<p, i>> when the non-empty key of
\* entry i reads at offset p
Occurrences(text, m) ==
    {o \in (0..Len(text)) \X (1..Len(m)) :
        m[o[2]].ph # <<>> /\ OccursAt(text, m[o[2]].ph, o[1])}

\* no two occurrences share a character
NoOverlap(text, m) ==
    \A o1, o2 \in Occurrences(text, m) :
        o1 # o2 => \/ o1[1] + Len(m[o1[2]].ph) <= o2[1]
                   \/ o2[1] + Len(m[o2[2]].ph) <= o1[1]

\* the text with every occurrence of every key replaced by the key's value,
\* read off the text from left to right
RECURSIVE Substituted(_, _, _)
Substituted(text, m, p) ==
    IF p >= Len(text) THEN <<>>
    ELSE LET here == {i \in 1..Len(m) : <<p, i>> \in Occurrences(text, m)}
         IN  IF here = {} THEN <<text[p + 1]>> \o Substituted(text, m, p + 1)
             ELSE LET i == CHOOSE i \in here : TRUE
                  IN  m[i].val \o Substituted(text, m, p + Len(m[i].ph))

\* C1: for any split of a text into runs and any map whose key occurrences
\* do not overlap, after replace_in_paragraph_preserve the concatenated run
\* texts are the original text with every occurrence of every key replaced
\* by that key's value.
C1_ConcatenationIsSubstituted ==
    (pc = "replaced" /\ NoOverlap(Join(doc0[1]), arg)) =>
        /\ exc = "none"
        /\ Join(doc[1]) = Substituted(Join(doc0[1]), arg, 0)

\* two keys replaced, one of them across a run boundary
C1_Witness ==
    /\ pc = "replaced"
    /\ NoOverlap(Join(doc0[1]), arg)
    /\ Cardinality(Occurrences(Join(doc0[1]), arg)) >= 2
    /\ Cardinality(assigned[1]) >= 2
    /\ Join(doc[1]) # Join(doc0[1])

\* the spans the replace pass located in the loaded paragraph
LocatedSpans == _collect_token_spans(Join(doc0[1]), arg)

\* run r (0-based) shares no character with any located span
OutsideSpans(r, spans) ==
    \A k \in 1..Len(spans) :
        \A q \in cum(doc0[1])[r]..(cum(doc0[1])[r + 1] - 1) :
            ~(spans[k].start <= q /\ q < spans[k].end)

\* C2: during a substitution pass a run entirely outside all located spans
\* is never touched: its text field is never assigned and its text is
\* unchanged afterwards.
C2_OutsideRunsUntouched ==
    (pc = "replaced" /\ NoOverlap(Join(doc0[1]), arg)) =>
        \A r \in 0..(Len(doc0[1]) - 1) :
            OutsideSpans(r, LocatedSpans) =>
                r \notin assigned[1] /\ doc[1][r + 1] = doc0[1][r + 1]

\* C8: the applier called with a non-empty span list on a paragraph with no
\* runs is a no-op: it returns without raising and mutates nothing.
C8_NoRunsIsNoOp ==
    (pc = "applied" /\ doc0[1] = <<>> /\ arg # <<>>) =>
        exc = "none" /\ doc = doc0 /\ assigned[1] = {}

\* the list is in descending order of start offset
SortedByStartDesc(spans) ==
    \A i, j \in 1..Len(spans) : i < j => spans[i].start >= spans[j].start

\* no two spans of the list share a character
PairwiseDisjoint(spans) ==
    \A i, j \in 1..Len(spans) :
        i < j => \/ spans[i].end <= spans[j].start
                 \/ spans[j].end <= spans[i].start

\* the first occurrence of every non-empty key that occurs in the text has
\* its span in the list
FirstMatchesKept(text, m, spans) ==
    \A i \in 1..Len(m) :
        (m[i].ph # <<>> /\ Find(text, m[i].ph, 0) # -1) =>
            \E k \in 1..Len(spans) :
                spans[k] = Span(Find(text, m[i].ph, 0),
                                Find(text, m[i].ph, 0) + Len(m[i].ph), m[i].val)

\* C12, as stated: for any paragraph text and any replacement map the span
\* list of _collect_token_spans is sorted by start offset descending and its
\* spans are pairwise non-overlapping, also when one key is a substring of
\* or shares text with another key (only one of the overlapping matches
\* being kept).
C12_SortedAndNeverOverlapping ==
    pc = "replaced" =>
        /\ SortedByStartDesc(LocatedSpans)
        /\ PairwiseDisjoint(LocatedSpans)

\* C12, amended: for any paragraph text and any replacement map the span
\* list of _collect_token_spans is sorted by start offset descending, and
\* its spans are pairwise non-overlapping when the occurrences of the keys
\* in the text do not overlap.  No overlap is resolved between keys: when
\* one key is a substring of or shares text with another, the matches of
\* both are kept (the first match of every key always), so the spans of the
\* list can overlap.
C12_SortedAndOverlapKept ==
    pc = "replaced" =>
        /\ SortedByStartDesc(LocatedSpans)
        /\ (NoOverlap(Join(doc0[1]), arg) => PairwiseDisjoint(LocatedSpans))
        /\ FirstMatchesKept(Join(doc0[1]), arg, LocatedSpans)

\* two keys sharing text, both matched: a list of overlapping spans that is
\* still in descending order of start
C12_Witness ==
    /\ pc = "replaced"
    /\ ~NoOverlap(Join(doc0[1]), arg)
    /\ Len(LocatedSpans) >= 2
    /\ ~PairwiseDisjoint(LocatedSpans)
    /\ \E i, j \in 1..Len(LocatedSpans) :
           i < j /\ LocatedSpans[i].start > LocatedSpans[j].start

-----------------------------------------------------------------------------
(***************************************************************************)
(* Claims about the deletion pass (SpecDelete).                            *)
(***************************************************************************)
\* C3: a run whose text is empty (an image-only run) is never selected as a
\* split target: the engine never assigns its text field, wherever the run
\* lies relative to the located spans.
C3_EmptyRunsNeverAssigned ==
    pc = "cleaned" =>
        \A r \in 0..(Len(doc0[1]) - 1) :
            doc0[1][r + 1] = <<>> => r \notin assigned[1]

\* name ends with suffix s, with at least `more` characters before it
EndsWith(name, s, more) ==
    /\ Len(name) >= Len(s) + more
    /\ SubSeq(name, Len(name) - Len(s) + 1, Len(name)) = s

\* length of the full placeholder token {{name}} at offset p, or 0: name is
\* the brace-free text between {{ and }}, and ends with one of the suffixes
\* after at least `more` other characters
TokenAt(text, suffixes, p, more) ==
    LET n == NameRun(text, p + 2)
        name == SubSeq(text, p + 3, p + 2 + n)
    IN  IF /\ OccursAt(text, <<LB, LB>>, p)
           /\ OccursAt(text, <<RB, RB>>, p + 2 + n)
           /\ \E i \in 1..Len(suffixes) : EndsWith(name, suffixes[i], more)
        THEN n + 4 ELSE 0

\* the text without those tokens
RECURSIVE Stripped(_, _, _, _)
Stripped(text, suffixes, p, more) ==
    IF p >= Len(text) THEN <<>>
    ELSE IF TokenAt(text, suffixes, p, more) > 0
         THEN Stripped(text, suffixes, p + TokenAt(text, suffixes, p, more), more)
         ELSE <<text[p + 1]>> \o Stripped(text, suffixes, p + 1, more)

\* C4, as stated: after the deletion pass the concatenated run text is the
\* original text with every token {{name}} whose name ends with one of the
\* suffixes removed, the rest intact and in order.
C4_TokensEndingWithSuffixRemoved ==
    (pc = "cleaned" /\ arg # <<>>) =>
        Join(doc[1]) = Stripped(Join(doc0[1]), arg, 0, 0)

\* C4, amended: after the deletion pass the concatenated run text is the
\* original text with every token {{name}} removed whose name is at least
\* one character followed by one of the suffixes; a token whose name is a
\* suffix and nothing else ({{_2}}) stays.  The rest is intact and in order.
C4_TokensWithNameBeforeSuffixRemoved ==
    (pc = "cleaned" /\ arg # <<>>) =>
        /\ exc = "none"
        /\ Join(doc[1]) = Stripped(Join(doc0[1]), arg, 0, 1)

\* a token cut across three runs is removed, text on both sides of it stays
C4_Witness ==
    /\ pc = "cleaned"
    /\ arg = <<Suf2, Suf3>>
    /\ Len(doc0[1]) = 3
    /\ Cardinality(assigned[1]) >= 2
    /\ Join(doc[1]) # Join(doc0[1])
    /\ Join(doc[1]) # <<>>

\* C5: the deletion pass is idempotent: run twice with the same suffixes it
\* leaves the run texts the first run left; no match remains after one run.
C5_DeletionIdempotent ==
    pc = "cleaned2" =>
        /\ doc = ret
        /\ \A p \in 1..Len(ret) : finditer(Join(ret[p]), arg, 0) = <<>>

-----------------------------------------------------------------------------
(***************************************************************************)
(* Claims about the section merge and the order of the passes (Spec).      *)
(***************************************************************************)
Merged == pc \in {"merged", "replaced", "done"}

\* section i is on the form with a brief uploaded
Supplied(i) == Shown(session, i) /\ session.sections[i].file.uploaded

\* the key of section i for the base key {{name}}: {{name<suffix>}}
SectionKey(k, i) == Placeholder(SubSeq(k, 3, Len(k) - 2) \o Suffix(i))

\* the master map holds, under section i's key for k, the value section i
\* produced for k
OwnValue(i, k) ==
    /\ DictHas(ret.master_repl, SectionKey(k, i))
    /\ DictGet(ret.master_repl, SectionKey(k, i)) = DictGet(section_repl(session.sections[i]), k)

BaseKeys(i) ==
    {section_repl(session.sections[i])[j].ph :
        j \in 1..Len(section_repl(session.sections[i]))}

\* C6, as stated: in the merged master map every placeholder of a section
\* carries that section's own value; no section's value is overwritten by
\* or derived from another section's value.
C6_EverySectionKeepsOwnValues ==
    Merged =>
        \A i \in 1..3 : Supplied(i) => \A k \in BaseKeys(i) : OwnValue(i, k)

\* the sum of the campaign budgets of the supplied sections
BudgetOf(i) ==
    IF Supplied(i)
    THEN _currency_to_float(DictGet(section_repl(session.sections[i]), TokBb))
    ELSE 0

\* C6, amended: every placeholder of a section carries that section's own
\* value, except {{total_budget}} of section 1: after the merge it is
\* overwritten with the formatted grand total of the campaign budgets of
\* all supplied sections, so it is derived from sections 2 and 3 as well.
C6_OwnValuesExceptTotalBudget ==
    Merged =>
        /\ \A i \in 1..3 : Supplied(i) =>
               \A k \in BaseKeys(i) : (i # 1 \/ k # TokT) => OwnValue(i, k)
        /\ DictGet(ret.master_repl, TokT)
               = <<"$">> \o NatText(BudgetOf(1) + BudgetOf(2) + BudgetOf(3))

\* three briefs merged, sections 1 and 2 with different names, the total of
\* section 1 replaced by the grand total
C6_Witness ==
    /\ pc = "merged"
    /\ \A i \in 1..3 : Supplied(i)
    /\ DictGet(ret.master_repl, TokN) # DictGet(ret.master_repl, TokN2)
    /\ DictGet(ret.master_repl, TokT) # DictGet(section_repl(session.sections[1]), TokT)
    /\ BudgetOf(2) > 0

\* the suffixes of the sections that were not supplied
Unsupplied ==
    (IF Supplied(2) THEN <<>> ELSE <<Suf2>>) \o (IF Supplied(3) THEN <<>> ELSE <<Suf3>>)

\* C7: the deletion pass runs after the replace pass with the merged map
\* has finished and only deletes tokens that were in the template, were
\* never populated and belong to a section that was not supplied; it
\* removes nothing the replace pass inserted and no token of a supplied
\* section.  So the finished document is the template without the tokens
\* of the unsupplied sections, with the merged map substituted.
C7_DeletesOnlyUnpopulatedTokens ==
    pc = "done" =>
        \A p \in 1..Len(doc0) :
            /\ Join(arg[p]) = Substituted(Join(doc0[p]), ret.master_repl, 0)
            /\ Join(doc[p]) =
                 Substituted(Stripped(Join(doc0[p]), Unsupplied, 0, 1), ret.master_repl, 0)

====
